---- MODULE Spec2Model ----
(***************************************************************************)
(* Model of OWSplitInstancesWidget (rowspit_instances/widget.py): a widget *)
(* that receives a table, lists its integer-valued numeric columns in a    *)
(* combo box, and on "Split" emits a table in which the chosen quantity    *)
(* column is dropped and every row is repeated quantity times.             *)
(*                                                                         *)
(* Numeric cell values are kept as a count of halves (3 stands for 1.5),   *)
(* so that np.mod(v, 1) and the comparison rows_added < v are computed     *)
(* and not assumed.  NaN is a separate value.                              *)
(***************************************************************************)
EXTENDS Integers, Sequences, FiniteSets

\* ---------------------------------------------------------------- bounds
MaxRows == 2    \* longest input table
MaxQty == 2     \* largest quantity found in a cell

\* ---------------------------------------------------------------- values
None == [none |-> TRUE]

NaN == [nan |-> TRUE, halves |-> 0]

Num(h) == [nan |-> FALSE, halves |-> h]

\* np.isnan
isnan(v) == v.nan

\* np.equal(np.mod(v, 1), 0)
mod1_is_zero(v) == v.halves % 2 = 0

\* rows_added <= row[col]: the loop runs once too often
less_or_equal(k, v) == 2 * k <= v.halves

\* rows_added < row[col], a comparison of an int with a float
less_than(k, v) == 2 * k < v.halves

\* ---------------------------------------------------------------- columns
ContinuousVariable(nm) == [name |-> nm, continuous |-> TRUE]

OtherVariable(nm) == [name |-> nm, continuous |-> FALSE]

nameVar == OtherVariable("name")

quantityVar == ContinuousVariable("quantity")

priceVar == ContinuousVariable("price")

Domain(attrs, cls, mts) == [attributes |-> attrs, class_vars |-> cls, metas |-> mts]

\* domain.variables: the attributes followed by the class variables
variables(domain) == domain.attributes \o domain.class_vars

\* domain.empty(): no variable and no meta
empty(domain) == variables(domain) = <<>> /\ domain.metas = <<>>

\* every column of a domain, in declared order
columns(domain) == variables(domain) \o domain.metas

\* the input domains the host may deliver: no column at all, no numeric
\* column, the docstring's example, a quantity that is the class variable,
\* a numeric meta, and two numeric attributes beside a meta
Domains ==
    { Domain(<<>>, <<>>, <<>>),
      Domain(<<nameVar>>, <<>>, <<>>),
      Domain(<<nameVar, quantityVar>>, <<>>, <<>>),
      Domain(<<priceVar, nameVar>>, <<quantityVar>>, <<>>),
      Domain(<<nameVar>>, <<>>, <<quantityVar>>),
      Domain(<<quantityVar, priceVar>>, <<>>, <<nameVar>>) }

\* the values a quantity cell may hold: NaN, -1, 0, 1.5 and 2 .. MaxQty
QtyValues == {NaN, Num(-2), Num(0), Num(3)} \cup {Num(2 * k) : k \in 2..MaxQty}

\* the cell of column var in the i-th row; the quantity is q, every other
\* column holds the row's number
Cell(var, i, q) == IF var = quantityVar THEN q ELSE Num(2 * i)

Cells(vars, i, q) == [k \in 1..Len(vars) |-> Cell(vars[k], i, q)]

Row(domain, i, q) ==
    [x |-> Cells(domain.attributes, i, q),
     y |-> Cells(domain.class_vars, i, q),
     m |-> Cells(domain.metas, i, q)]

Table(domain, rws) == [domain |-> domain, rows |-> rws]

Tables ==
    { Table(d, [i \in 1..r |-> Row(d, i, qs[i])]) :
        <<d, r, qs>> \in { <<d, r, qs>> \in Domains \X (0..MaxRows) \X UNION {[1..k -> QtyValues] : k \in 0..MaxRows} :
                            DOMAIN qs = 1..r } }

\* ---------------------------------------------------------------- rows
\* position of the first variable called nm in vars, 0 when there is none
RECURSIVE index_of(_, _, _)
index_of(vars, nm, k) ==
    IF k > Len(vars) THEN 0
    ELSE IF vars[k].name = nm THEN k
    ELSE index_of(vars, nm, k + 1)

\* row[nm] of a row laid out by domain
value_of(domain, row, nm) ==
    LET a == index_of(domain.attributes, nm, 1)
        c == index_of(domain.class_vars, nm, 1)
        m == index_of(domain.metas, nm, 1)
    IN  IF a > 0 THEN row.x[a]
        ELSE IF c > 0 THEN row.y[c]
        ELSE row.m[m]

\* Instance(new_domain, row): the row converted to new_domain, each of its
\* columns looked up by name in the source row
Instance(new_domain, domain, row) ==
    [x |-> [k \in 1..Len(new_domain.attributes) |->
                value_of(domain, row, new_domain.attributes[k].name)],
     y |-> [k \in 1..Len(new_domain.class_vars) |->
                value_of(domain, row, new_domain.class_vars[k].name)],
     m |-> [k \in 1..Len(new_domain.metas) |->
                value_of(domain, row, new_domain.metas[k].name)]]

\* ---------------------------------------------------------------- state
VARIABLES
    data,          \* self.data: None or the input table
    features,      \* self.features: the combo box's model
    currentIndex,  \* self.features_widget.currentIndex()
    enabled,       \* self.button.isEnabled()
    sent,          \* what the last handler sent to Outputs.data
    raised,        \* the exception the last handler raised, "" if none
    pc             \* the handler that ran last

vars == <<data, features, currentIndex, enabled, sent, raised, pc>>

SelectFeature == [label |-> "Select Feature"]

\* ---------------------------------------------------------------- handlers
is_integer_col(table, var) ==
    IF ~var.continuous THEN FALSE
    ELSE \A i \in 1..Len(table.rows) :
            LET v == value_of(table.domain, table.rows[i], var.name)
            IN  isnan(v) \/ mod1_is_zero(v)

\* index < 0 in place of index < 1: the sentinel counts as a selection
selected_col_sentinel(model, index) ==
    IF index < 0 THEN None ELSE model[index + 1]

\* index counts from 0 as the combo box does, model from 1
selected_col(model, index) ==
    IF index < 1 THEN None ELSE model[index + 1]

\* the button's state after feature_changed ran
feature_changed_enabled(model, index) == selected_col(model, index) # None

\* self.features[:] = items.  The list model removes all its rows, which
\* leaves the combo box without a current index, then inserts the new rows,
\* which makes the first one current; each change of the current index
\* signals currentIndexChanged, which is connected to feature_changed.
\* The result is <<model, index, enabled>>.
assign_features(index, en, items) ==
    LET en1 == IF index # -1 THEN feature_changed_enabled(<<>>, -1) ELSE en
    IN  IF items = <<>> THEN <<items, -1, en1>>
        ELSE <<items, 0, feature_changed_enabled(items, 0)>>

\* the truth value of self.data: None and a table of no rows are false
truthy(table) == table # None /\ Len(table.rows) > 0

eligible_features(table) ==
    LET vs == variables(table.domain)
    IN  SelectSeq(vs, LAMBDA var : is_integer_col(table, var))

\* <<model, index, enabled>> once set_data(table) has returned
set_data_result(index, en, table) ==
    LET first == assign_features(index, en, <<SelectFeature>>)
    IN  IF truthy(table) /\ ~empty(table.domain)
        THEN assign_features(first[2], first[3], first[1] \o eligible_features(table))
        ELSE first

\* what the host may deliver: a table or None
Inputs == Tables \cup {None}

set_data ==
    /\ pc # "set_data"
    /\ \E table \in Inputs :
        \E result \in {set_data_result(currentIndex, enabled, table)} :
            /\ data' = table
            /\ features' = result[1]
            /\ currentIndex' = result[2]
            /\ enabled' = result[3]
    /\ sent' = <<>>
    /\ raised' = ""
    /\ pc' = "set_data"

\* handleNewSignals that only refreshes the button
handleNewSignals_silent ==
    /\ pc = "set_data"
    /\ sent' = <<>>
    /\ enabled' = feature_changed_enabled(features, currentIndex)
    /\ raised' = ""
    /\ pc' = "handleNewSignals"
    /\ UNCHANGED <<data, features, currentIndex>>

handleNewSignals ==
    /\ pc = "set_data"
    /\ IF data = None
       THEN sent' = <<None>> /\ enabled' = enabled
       ELSE sent' = <<>> /\ enabled' = feature_changed_enabled(features, currentIndex)
    /\ raised' = ""
    /\ pc' = "handleNewSignals"
    /\ UNCHANGED <<data, features, currentIndex>>

\* the user picks another entry of the combo box
feature_changed ==
    /\ pc # "set_data"
    /\ \E index \in 0..(Len(features) - 1) :
        /\ index # currentIndex
        /\ currentIndex' = index
        /\ enabled' = feature_changed_enabled(features, index)
    /\ sent' = <<>>
    /\ raised' = ""
    /\ pc' = "feature_changed"
    /\ UNCHANGED <<data, features>>

\* while rows_added < row[col]: res.append(...); rows_added += 1
RECURSIVE while_rows_added(_, _, _, _)
while_rows_added(res, inst, rows_added, q) ==
    IF less_than(rows_added, q)
    THEN while_rows_added(Append(res, inst), inst, rows_added + 1, q)
    ELSE res

\* the loop over the rows with each row's copies put in front of the result
RECURSIVE for_row_prepend(_, _, _, _, _)
for_row_prepend(table, col, new_domain, i, res) ==
    IF i > Len(table.rows) THEN res
    ELSE LET row == table.rows[i]
             inst == Instance(new_domain, table.domain, row)
             q == value_of(table.domain, row, col)
             res1 == <<inst>>
             res2 == IF ~isnan(q) THEN while_rows_added(res1, inst, 1, q) ELSE res1
         IN  for_row_prepend(table, col, new_domain, i + 1, res2 \o res)

\* for row in self.data, from the i-th row on
RECURSIVE for_row(_, _, _, _, _)
for_row(table, col, new_domain, i, res) ==
    IF i > Len(table.rows) THEN res
    ELSE LET row == table.rows[i]
             inst == Instance(new_domain, table.domain, row)
             q == value_of(table.domain, row, col)
             res1 == Append(res, inst)
             res2 == IF ~isnan(q) THEN while_rows_added(res1, inst, 1, q) ELSE res1
         IN  for_row(table, col, new_domain, i + 1, res2)

without_count_col(table, col) ==
    SelectSeq(variables(table.domain), LAMBDA var : var.name # col)

split_domain(table, col) ==
    Domain(without_count_col(table, col), table.domain.class_vars, table.domain.metas)

split_table(table, col) ==
    LET new_domain == split_domain(table, col)
    IN  Table(new_domain, for_row(table, col, new_domain, 1, <<>>))

\* split that sends the input on when nothing is selected
split_unguarded ==
    /\ pc # "set_data"
    /\ LET sel == selected_col(features, currentIndex)
       IN  IF sel = None \/ sel = SelectFeature \/ data = None
           THEN sent' = <<data>> /\ raised' = ""
           ELSE sent' = <<split_table(data, sel.name)>> /\ raised' = ""
    /\ pc' = "split"
    /\ UNCHANGED <<data, features, currentIndex, enabled>>

\* split that disables the button once it has sent its table
split_disables ==
    /\ pc # "set_data"
    /\ LET sel == selected_col(features, currentIndex)
       IN  IF sel = None \/ sel = SelectFeature \/ data = None
           THEN sent' = <<>> /\ raised' = "AttributeError" /\ enabled' = enabled
           ELSE sent' = <<split_table(data, sel.name)>> /\ raised' = "" /\ enabled' = FALSE
    /\ pc' = "split"
    /\ UNCHANGED <<data, features, currentIndex>>

split ==
    /\ pc # "set_data"
    /\ LET sel == selected_col(features, currentIndex)
       IN  IF sel = None \/ sel = SelectFeature \/ data = None
           THEN sent' = <<>> /\ raised' = "AttributeError"
           ELSE sent' = <<split_table(data, sel.name)>> /\ raised' = ""
    /\ pc' = "split"
    /\ UNCHANGED <<data, features, currentIndex, enabled>>

Init ==
    /\ data = None
    /\ features = <<SelectFeature>>
    /\ currentIndex = 0
    /\ enabled = FALSE
    /\ sent = <<>>
    /\ raised = ""
    /\ pc = "__init__"

Next == set_data \/ handleNewSignals \/ feature_changed \/ split

Spec == Init /\ [][Next]_vars

\* ---------------------------------------------------------------- properties
\* split ran and sent a table
SplitSent == pc = "split" /\ raised = "" /\ Len(sent) = 1

\* the selected variable, read off the state
Selected == features[currentIndex + 1]

\* every value of column var is missing or has no fractional part
AllIntegerOrMissing(table, var) ==
    \A i \in 1..Len(table.rows) :
        LET v == value_of(table.domain, table.rows[i], var.name)
        IN  v.nan \/ (v.halves \div 2) * 2 = v.halves

\* numeric, and every value missing or integer
Eligible(table, var) == var.continuous /\ AllIntegerOrMissing(table, var)

\* max(1, int_or_1(v))
Copies(v) == IF v.nan THEN 1 ELSE IF v.halves \div 2 > 1 THEN v.halves \div 2 ELSE 1

RECURSIVE SumCopies(_, _, _)
SumCopies(table, col, i) ==
    IF i > Len(table.rows) THEN 0
    ELSE Copies(value_of(table.domain, table.rows[i], col)) + SumCopies(table, col, i + 1)

\* C1: whenever an eligible column is selected, split sends a table of
\* exactly sum over the input rows of max(1, q) rows, NaN counting as 1.
C1_RowCount ==
    (pc = "split" /\ currentIndex >= 1) =>
        /\ SplitSent
        /\ Len(sent[1].rows) = SumCopies(data, Selected.name, 1)

\* a split of a two-row table holding a quantity of at most 0 and one of 2
C1_Witness ==
    /\ SplitSent
    /\ Selected = quantityVar
    /\ Len(data.rows) = 2
    /\ value_of(data.domain, data.rows[1], "quantity").halves <= 0
    /\ value_of(data.domain, data.rows[2], "quantity") = Num(4)
    /\ Len(sent[1].rows) = 3

\* a split on a quantity column that is missing in every row
C1_WitnessMissing ==
    /\ SplitSent
    /\ Selected = quantityVar
    /\ Len(data.rows) = 2
    /\ \A i \in 1..2 : value_of(data.domain, data.rows[i], "quantity") = NaN

\* C2: the domain of the table split sends is the input domain minus the
\* selected column: it never holds that column and holds every other input
\* column exactly once, in the original order.
C2_ColumnDrop ==
    SplitSent =>
        columns(sent[1].domain) =
            SelectSeq(columns(data.domain), LAMBDA var : var # Selected)

\* C3: the rows split sends are the copies of the source rows, in source
\* order and adjacent: some non-decreasing map onto the source rows takes
\* every sent row to the source row it copies, column by column.
C3_OrderPreserved ==
    SplitSent =>
        LET out == sent[1]
            n == Len(out.rows)
            k == Len(data.rows)
        IN  /\ \A j \in 1..n :
                /\ Len(out.rows[j].x) = Len(out.domain.attributes)
                /\ Len(out.rows[j].y) = Len(out.domain.class_vars)
                /\ Len(out.rows[j].m) = Len(out.domain.metas)
            /\ \E f \in [1..n -> 1..k] :
                /\ \A j \in 1..n : \A j2 \in j..n : f[j] <= f[j2]
                /\ \A i \in 1..k : \E j \in 1..n : f[j] = i
                /\ \A j \in 1..n :
                    /\ \A c \in 1..Len(out.domain.attributes) :
                        out.rows[j].x[c] = value_of(data.domain, data.rows[f[j]],
                                                    out.domain.attributes[c].name)
                    /\ \A c \in 1..Len(out.domain.class_vars) :
                        out.rows[j].y[c] = value_of(data.domain, data.rows[f[j]],
                                                    out.domain.class_vars[c].name)
                    /\ \A c \in 1..Len(out.domain.metas) :
                        out.rows[j].m[c] = value_of(data.domain, data.rows[f[j]],
                                                    out.domain.metas[c].name)

\* a split that repeats the second of two rows that differ
C3_Witness ==
    /\ SplitSent
    /\ Len(data.rows) = 2
    /\ Len(sent[1].rows) = 3
    /\ sent[1].rows[1] # sent[1].rows[2]
    /\ sent[1].rows[2] = sent[1].rows[3]

\* C4: after set_data with a table of a non-empty domain, the entries after
\* the sentinel are exactly the columns that are numeric and hold only
\* missing or integer values, in declared order.
C4_EligibilitySound ==
    (pc = "set_data" /\ data # None /\ ~empty(data.domain)) =>
        /\ features[1] = SelectFeature
        /\ Tail(features) =
            SelectSeq(columns(data.domain), LAMBDA var : Eligible(data, var))

\* C5: for a table of no rows and at least one column, every numeric column
\* is listed after set_data.
C5_EmptyTable ==
    (pc = "set_data" /\ data # None /\ ~empty(data.domain) /\ data.rows = <<>>) =>
        \A c \in 1..Len(columns(data.domain)) :
            columns(data.domain)[c].continuous =>
                \E k \in 2..Len(features) : features[k] = columns(data.domain)[c]

\* the selection is a column of the current table's eligible list
ValidSelection ==
    /\ data # None
    /\ currentIndex >= 1
    /\ currentIndex < Len(features)
    /\ \E c \in 1..Len(columns(data.domain)) :
        /\ columns(data.domain)[c] = Selected
        /\ Eligible(data, Selected)

\* C6: a split requested while the selection is not a column of the current
\* table's eligible list raises an error and sends nothing.
C6_InvalidSelectionGuarded ==
    (pc = "split" /\ ~ValidSelection) => (raised # "" /\ sent = <<>>)

\* split was requested with the sentinel selected while a table is present
C6_Witness ==
    /\ pc = "split"
    /\ data # None
    /\ Len(features) > 1
    /\ currentIndex = 0
    /\ raised = "AttributeError"

\* split was requested without an input table
C6_WitnessNoData == pc = "split" /\ data = None /\ raised = "AttributeError"

\* C7: the Split button is enabled exactly when the selection is a column
\* of the eligible list and not the sentinel; it starts disabled.
C7_CommitEnabled ==
    /\ enabled <=> (currentIndex >= 1 /\ currentIndex < Len(features))
    /\ pc = "__init__" => ~enabled

\* a column was picked and the button is enabled
C7_Witness == pc = "feature_changed" /\ currentIndex >= 1 /\ enabled

\* a new input arrived after a column had been picked
C7_WitnessReset ==
    pc = "handleNewSignals" /\ Len(features) > 1 /\ currentIndex = 0 /\ ~enabled

\* C8: only split and the arrival of a null input send anything; a null
\* input is sent on as null by handleNewSignals, a table's arrival sends
\* nothing.
C8_OutputEmission ==
    /\ pc = "set_data" => sent = <<>>
    /\ pc = "feature_changed" => sent = <<>>
    /\ pc = "handleNewSignals" => sent = (IF data = None THEN <<None>> ELSE <<>>)
    /\ sent # <<>> => (pc = "split" \/ (pc = "handleNewSignals" /\ data = None))
    /\ pc = "split" => \A j \in 1..Len(sent) : sent[j] # None

\* the input became null and null was sent on
C8_Witness == pc = "handleNewSignals" /\ data = None /\ sent = <<None>>

\* a table arrived and nothing was sent
C8_WitnessTable == pc = "handleNewSignals" /\ data # None /\ sent = <<>>

\* C9: after set_data the list is exactly the sentinel followed by the
\* eligible columns of the new table, just the sentinel when the table is
\* absent or its domain empty, and the sentinel is selected.
C9_FreshEligibility ==
    pc = "set_data" =>
        /\ currentIndex = 0
        /\ features =
            <<SelectFeature>> \o
                (IF data = None \/ empty(data.domain) THEN <<>>
                 ELSE SelectSeq(variables(data.domain),
                                LAMBDA var : is_integer_col(data, var)))

\* C10: split changes neither the input table, the list, the selection nor
\* the button, sends at most one table, and sends the same table again when
\* it is requested twice in a row.
C10_SplitFrame ==
    [][pc' = "split" =>
        /\ data' = data
        /\ features' = features
        /\ currentIndex' = currentIndex
        /\ enabled' = enabled
        /\ Len(sent') <= 1
        /\ (pc = "split" => sent' = sent)]_vars

\* split sent a table longer than its input, which is still in place
C10_Witness ==
    /\ SplitSent
    /\ enabled
    /\ Len(sent[1].rows) > Len(data.rows)
    /\ sent[1] # data

====
